---- MODULE Spec2Model ----
(***************************************************************************)
(* Model of creature-evolution: the application state UIData (src/app.rs)  *)
(* driving up to three optimisation strategies, each over its own          *)
(* Population.  UIData's methods are translated from src/src/app.rs.  The  *)
(* Population, Creature and the three strategies are not among the source  *)
(* files; they are modelled from the specification (sections 3 and 4) and  *)
(* from the way app.rs and tests/integration.rs use them.                  *)
(*                                                                         *)
(* Numbers: fitness (f32) and temperature are modelled as integers; a      *)
(* genome is one small integer gene.  The random source StdRng is a        *)
(* deterministic generator: a state and a step function, seeded from the   *)
(* operating system (any seed) in UIData::new.                             *)
(*                                                                         *)
(* A Rust panic (index out of bounds, gen_range with an empty range) ends  *)
(* the program: the model records it in `panicked`, keeps the fields as    *)
(* they were when the panic was raised, and takes no further step.         *)
(***************************************************************************)
EXTENDS Integers, Sequences, FiniteSets, TLC

\* Bounds of the model.
MaxSize == 2        \* generation_size ranges over 0..MaxSize
MaxGenome == 2      \* a gene ranges over 0..MaxGenome
MaxGen == 2         \* ticks per run: total_generations <= MaxGen
MaxMethods == 3     \* optmethods never holds more than MaxMethods strategies
MaxSeed == 1        \* seeds of the random source: 1..MaxSeed
MaxFrame == 1       \* frames drawn of one replay: simulation_frame <= MaxFrame
MaxWatched == 1     \* generations advanced in a run inspected creature by creature

VARIABLES
    gui_state,              \* "Menu" | "Generations"
    rng,                    \* state of the random source
    generation_size,
    use_genetic_algorithm,
    use_simulated_annealing,
    use_hill_climbing,
    total_generations,
    spectate_method,
    spectate_generation,
    spectate_creature,
    draw_simulation,
    simulation_frame,
    current_fitness,
    optmethods,             \* sequence of strategies
    modal_visible,
    modal_struct,           \* None or a Modal record
    panicked,               \* the program has panicked (terminal)
    last_op,                \* the UIData method called last
    last_args,              \* the arguments it was called with
    results                 \* what each strategy's generation_single returned in the last tick

vars == <<gui_state, rng, generation_size, use_genetic_algorithm,
          use_simulated_annealing, use_hill_climbing, total_generations,
          spectate_method, spectate_generation, spectate_creature,
          draw_simulation, simulation_frame, current_fitness, optmethods,
          modal_visible, modal_struct, panicked, last_op, last_args, results>>

None == [some |-> FALSE]
Some(v) == [some |-> TRUE, val |-> v]

-----------------------------------------------------------------------------
(* The random source: rand::StdRng, one state and one step per draw.       *)

RngNext(s) == (2 * s) % 5

\* Rng::gen_range(low, high), low < high: the value drawn from state s.
\* The state after the draw is RngNext(s).
GenRange(s, low, high) == low + (RngNext(s) % (high - low))

-----------------------------------------------------------------------------
(* Creature, Generation, Population (specification, section 3).            *)

\* The external physics trial's score of a genome; distinct genomes may tie.
Fitness(g) == (g + 1) \div 2

\* A creature before its first evaluation: fitness zero, canonical position.
NewCreature(g) == [genome |-> g, fitness |-> 0, scored |-> FALSE, pos |-> 0]

\* One evaluation pass over a creature: skipped when already scored;
\* the trial leaves the creature where it walked to.
Evaluate(c) ==
    IF c.scored THEN c
    ELSE [c EXCEPT !.fitness = Fitness(c.genome), !.scored = TRUE,
                   !.pos = Fitness(c.genome)]

\* Creature::reset_position
reset_position(c) == [c EXCEPT !.pos = 0]

\* A genome perturbed by one draw: another gene value.
Perturb(g, s) == (g + 1 + GenRange(s, 0, MaxGenome)) % (MaxGenome + 1)

RECURSIVE RandomCreatures(_, _)
\* n creatures with independently drawn genomes, one draw each.
RandomCreatures(n, s) ==
    IF n = 0 THEN [creatures |-> <<>>, rng |-> s]
    ELSE LET rest == RandomCreatures(n - 1, s)
         IN  [creatures |-> Append(rest.creatures,
                                   NewCreature(GenRange(rest.rng, 0, MaxGenome + 1))),
              rng |-> RngNext(rest.rng)]

\* Population::new(size, rng) as app.rs:155 uses it: the value returned is
\* bound as a Population and cloned, with no error branch.
Population_new(size, s) ==
    LET made == RandomCreatures(size, s)
    IN  [data |-> [gen |-> 0,
                   generations |-> << [creatures |-> made.creatures] >>],
         rng |-> made.rng]

-----------------------------------------------------------------------------
(* The three strategies (specification, sections 4.2 to 4.5).  A strategy  *)
(* is [kind, data, temperature]: data is the Population it owns,           *)
(* temperature the annealing temperature (unused by the other two).        *)

GeneticAlgorithm_new(population) ==
    [kind |-> "GeneticAlgorithm", data |-> population, temperature |-> 0]

HillClimbing_new(population) ==
    [kind |-> "HillClimbing", data |-> population, temperature |-> 0]

SimulatedAnnealing_new(population) ==
    [kind |-> "SimulatedAnnealing", data |-> population, temperature |-> 2]

\* OptimisationMethod::get_data
get_data(method) == method.data

\* A defect of HillAccept: a candidate that only ties is accepted too.
HillAcceptTies(candidate, parent) == candidate.fitness >= parent.fitness

\* Hill climbing's accept rule: strict improvement.
HillAccept(candidate, parent) == candidate.fitness > parent.fitness

RECURSIVE HillClimbingNext(_, _)
\* One candidate per creature, left to right, one draw each; the candidate is
\* evaluated and kept only if accepted, otherwise the parent is carried
\* forward unchanged, its fitness retained.
HillClimbingNext(cs, s) ==
    IF cs = <<>> THEN [creatures |-> <<>>, rng |-> s]
    ELSE LET n == Len(cs)
             rest == HillClimbingNext(SubSeq(cs, 1, n - 1), s)
             parent == cs[n]
             candidate == Evaluate(NewCreature(Perturb(parent.genome, rest.rng)))
         IN  [creatures |-> Append(rest.creatures,
                                   IF HillAccept(candidate, parent)
                                   THEN candidate ELSE parent),
              rng |-> RngNext(rest.rng)]

\* A defect of the annealing schedule: geometric decay without the floor.
CoolNoFloor(temperature) == temperature \div 2

\* The cooling schedule: halve per generation, never below the floor 1.
Cool(temperature) == IF temperature \div 2 < 1 THEN 1 ELSE temperature \div 2

\* Metropolis acceptance of a worse candidate (delta < 0) at a temperature,
\* decided by a draw u in 0..3: accepted with probability
\* temperature / (temperature - delta), the integer stand-in for
\* exp(delta / temperature).
Metropolis(delta, temperature, u) == u * (temperature - delta) < 4 * temperature

RECURSIVE SimulatedAnnealingNext(_, _, _)
SimulatedAnnealingNext(cs, s, temperature) ==
    IF cs = <<>> THEN [creatures |-> <<>>, rng |-> s]
    ELSE LET n == Len(cs)
             rest == SimulatedAnnealingNext(SubSeq(cs, 1, n - 1), s, temperature)
             parent == cs[n]
             candidate == Evaluate(NewCreature(Perturb(parent.genome, rest.rng)))
             s1 == RngNext(rest.rng)
             delta == candidate.fitness - parent.fitness
         IN  IF delta >= 0
             THEN [creatures |-> Append(rest.creatures, candidate), rng |-> s1]
             ELSE [creatures |-> Append(rest.creatures,
                                        IF Metropolis(delta, temperature,
                                                      GenRange(s1, 0, 4))
                                        THEN candidate ELSE parent),
                   rng |-> RngNext(s1)]

\* Tournament selection of one parent: two draws, the fitter wins, a tie is
\* settled by a third draw.
Tournament(cs, s) ==
    LET n == Len(cs)
        a == cs[GenRange(s, 0, n) + 1]
        s1 == RngNext(s)
        b == cs[GenRange(s1, 0, n) + 1]
        s2 == RngNext(s1)
    IN  IF a.fitness > b.fitness THEN [creature |-> a, rng |-> s2]
        ELSE IF a.fitness < b.fitness THEN [creature |-> b, rng |-> s2]
        ELSE [creature |-> IF GenRange(s2, 0, 2) = 0 THEN a ELSE b,
              rng |-> RngNext(s2)]

\* One child: two parents, crossover (the gene of either parent, by a draw),
\* mutation with probability 1/4.
Child(cs, s) ==
    LET pa == Tournament(cs, s)
        pb == Tournament(cs, pa.rng)
        gene == IF GenRange(pb.rng, 0, 2) = 0
                THEN pa.creature.genome ELSE pb.creature.genome
        s1 == RngNext(pb.rng)
        mutate == GenRange(s1, 0, 4) = 0
        s2 == RngNext(s1)
    IN  IF mutate
        THEN [creature |-> NewCreature(Perturb(gene, s2)), rng |-> RngNext(s2)]
        ELSE [creature |-> NewCreature(gene), rng |-> s2]

RECURSIVE GeneticAlgorithmNext(_, _, _)
\* Children are produced until exactly n exist.
GeneticAlgorithmNext(cs, s, n) ==
    IF n = 0 THEN [creatures |-> <<>>, rng |-> s]
    ELSE LET rest == GeneticAlgorithmNext(cs, s, n - 1)
             child == Child(cs, rest.rng)
         IN  [creatures |-> Append(rest.creatures, child.creature),
              rng |-> child.rng]

\* The strategy's rule applied to the evaluated current generation.
NextCreatures(method, cs, s) ==
    CASE method.kind = "GeneticAlgorithm" -> GeneticAlgorithmNext(cs, s, Len(cs))
      [] method.kind = "HillClimbing" -> HillClimbingNext(cs, s)
      [] method.kind = "SimulatedAnnealing" ->
             SimulatedAnnealingNext(cs, s, method.temperature)

\* A defect of Advance: the generation is appended, gen is not incremented.
AdvanceKeepsGen(data, scored, next) ==
    [gen |-> data.gen,
     generations |-> Append([data.generations EXCEPT ![Len(data.generations)] =
                                 [creatures |-> scored]],
                            [creatures |-> next])]

\* The history after a successful advance: the current generation scored,
\* the new generation appended, gen incremented.
Advance(data, scored, next) ==
    [gen |-> data.gen + 1,
     generations |-> Append([data.generations EXCEPT ![Len(data.generations)] =
                                 [creatures |-> scored]],
                            [creatures |-> next])]

\* A defect of OptimisationMethod::generation_single: a failed call leaves
\* the creatures of the current generation scored.
generation_single_partial(method, s, evaluates) ==
    LET data == method.data
        current == data.generations[Len(data.generations)].creatures
        scored == [i \in 1..Len(current) |-> Evaluate(current[i])]
        next == NextCreatures(method, scored, s)
    IN  IF ~evaluates
        THEN [method |-> [method EXCEPT
                            !.data.generations[Len(data.generations)] =
                                [creatures |-> scored]],
              rng |-> s, result |-> "Err"]
        ELSE [method |-> [method EXCEPT
                            !.data = Advance(data, scored, next.creatures),
                            !.temperature = IF method.kind = "SimulatedAnnealing"
                                            THEN Cool(@) ELSE @],
              rng |-> next.rng,
              result |-> "Ok"]

\* OptimisationMethod::generation_single(rng).  evaluates: whether the external
\* fitness evaluation succeeds for the creatures of this call.  Returns the
\* strategy, the random source and the Result.
OptimisationMethod_generation_single(method, s, evaluates) ==
    IF ~evaluates
    THEN [method |-> method, rng |-> s, result |-> "Err"]
    ELSE LET data == method.data
             current == data.generations[Len(data.generations)].creatures
             scored == [i \in 1..Len(current) |-> Evaluate(current[i])]
             next == NextCreatures(method, scored, s)
         IN  IF Len(next.creatures) # Len(current)
             THEN [method |-> method, rng |-> s, result |-> "Err"]
             ELSE [method |-> [method EXCEPT
                                 !.data = Advance(data, scored, next.creatures),
                                 !.temperature = IF method.kind = "SimulatedAnnealing"
                                                 THEN Cool(@) ELSE @],
                   rng |-> next.rng,
                   result |-> "Ok"]

-----------------------------------------------------------------------------
(* UIData (src/src/app.rs).  Its methods are operators from a UIData       *)
(* record to the UIData record the call leaves behind.                     *)

\* The UIData of the current state.
UI ==
    [gui_state |-> gui_state, rng |-> rng, generation_size |-> generation_size,
     use_genetic_algorithm |-> use_genetic_algorithm,
     use_simulated_annealing |-> use_simulated_annealing,
     use_hill_climbing |-> use_hill_climbing,
     total_generations |-> total_generations,
     spectate_method |-> spectate_method,
     spectate_generation |-> spectate_generation,
     spectate_creature |-> spectate_creature,
     draw_simulation |-> draw_simulation,
     simulation_frame |-> simulation_frame,
     current_fitness |-> current_fitness,
     optmethods |-> optmethods,
     modal_visible |-> modal_visible, modal_struct |-> modal_struct,
     panicked |-> panicked, results |-> results]

\* UIData::new: the fields as constructed, the random source seeded.
UIData_new(seed) ==
    [gui_state |-> "Menu", rng |-> seed, generation_size |-> 100,
     use_genetic_algorithm |-> TRUE,
     use_simulated_annealing |-> FALSE,
     use_hill_climbing |-> FALSE,
     total_generations |-> 0,
     spectate_method |-> 0,
     spectate_generation |-> 0,
     spectate_creature |-> 0,
     draw_simulation |-> FALSE,
     simulation_frame |-> 0,
     current_fitness |-> 0,
     optmethods |-> <<>>,
     modal_visible |-> FALSE, modal_struct |-> None,
     panicked |-> FALSE, results |-> <<>>]

Panic(u) == [u EXCEPT !.panicked = TRUE]

\* UIData::modal_new
modal_new(u, title, message, btn_a_label, btn_b_label) ==
    LET button_a_label == IF btn_a_label.some THEN btn_a_label.val ELSE "Okay"
        button_b_label == IF btn_b_label.some THEN btn_b_label.val ELSE "Close"
    IN  [u EXCEPT !.modal_struct = Some([title |-> title, message |-> message,
                                         button_a_label |-> button_a_label,
                                         button_b_label |-> button_b_label]),
                  !.modal_visible = TRUE]

\* A defect of modal_close: the modal is hidden and its contents are kept.
modal_close_hides(u) == [u EXCEPT !.modal_visible = FALSE]

\* UIData::modal_close
modal_close(u) == [u EXCEPT !.modal_visible = FALSE, !.modal_struct = None]

\* Whether generations[generation].creatures[creature] is in bounds (0-based).
InBounds(data, generation, creature) ==
    /\ generation < Len(data.generations)
    /\ creature < Len(data.generations[generation + 1].creatures)

RECURSIVE ResetLoop(_, _)
\* The loop of reset_simulation from strategy k on: the indexing panics at
\* the first strategy it is out of bounds for, the earlier ones stay reset.
ResetLoop(u, k) ==
    IF k > Len(u.optmethods) THEN u
    ELSE IF ~InBounds(u.optmethods[k].data, u.spectate_generation, u.spectate_creature)
    THEN Panic(u)
    ELSE ResetLoop(
             [u EXCEPT !.optmethods[k].data.generations[u.spectate_generation + 1]
                           .creatures[u.spectate_creature + 1] = reset_position(@)],
             k + 1)

\* A defect of reset_simulation: the selection goes back to the first creature.
reset_simulation_rewinds(u) ==
    LET r == ResetLoop(u, 1)
    IN  IF r.panicked THEN r
        ELSE [r EXCEPT !.simulation_frame = 0, !.spectate_creature = 0]

\* UIData::reset_simulation
reset_simulation(u) ==
    LET r == ResetLoop(u, 1)
    IN  IF r.panicked THEN r ELSE [r EXCEPT !.simulation_frame = 0]

\* A defect of set_creature: the fitness is read from the watched generation
\* instead of the generation asked for.
set_creature_watched_generation(u, method, index, generation) ==
    LET r == reset_simulation(u)
    IN  IF r.panicked THEN r
        ELSE IF method >= Len(r.optmethods) THEN Panic(r)
        ELSE LET data == get_data(r.optmethods[method + 1])
                 r1 == [r EXCEPT !.spectate_creature = index]
             IN  IF ~InBounds(data, r.spectate_generation, index) THEN Panic(r1)
                 ELSE [r1 EXCEPT !.current_fitness =
                          data.generations[r.spectate_generation + 1]
                              .creatures[index + 1].fitness]

\* UIData::set_creature
set_creature(u, method, index, generation) ==
    LET r == reset_simulation(u)
    IN  IF r.panicked THEN r
        ELSE IF method >= Len(r.optmethods) THEN Panic(r)
        ELSE LET data == get_data(r.optmethods[method + 1])
                 r1 == [r EXCEPT !.spectate_creature = index]
             IN  IF ~InBounds(data, generation, index) THEN Panic(r1)
                 ELSE [r1 EXCEPT !.current_fitness =
                          data.generations[generation + 1].creatures[index + 1].fitness]

\* A defect of set_creature_random: the upper end of the range is included.
set_creature_random_inclusive(u) ==
    LET index == GenRange(u.rng, 0, u.generation_size + 1)
        r == [u EXCEPT !.rng = RngNext(u.rng)]
    IN  set_creature(r, r.spectate_method, index, r.spectate_generation)

\* UIData::set_creature_random.  gen_range(0, 0) panics (low >= high).
set_creature_random(u) ==
    IF u.generation_size = 0 THEN Panic(u)
    ELSE LET index == GenRange(u.rng, 0, u.generation_size)
             r == [u EXCEPT !.rng = RngNext(u.rng)]
         IN  set_creature(r, r.spectate_method, index, r.spectate_generation)

\* A defect of the pushes: hill climbing gets a population of its own making
\* instead of a clone.
PushedFresh(u, population) ==
    (IF u.use_genetic_algorithm THEN <<GeneticAlgorithm_new(population)>> ELSE <<>>)
    \o (IF u.use_hill_climbing
        THEN <<HillClimbing_new(Population_new(u.generation_size, RngNext(u.rng)).data)>>
        ELSE <<>>)
    \o (IF u.use_simulated_annealing THEN <<SimulatedAnnealing_new(population)>> ELSE <<>>)

\* A defect of the pushes: simulated annealing is pushed before hill climbing.
PushedAnnealingSecond(u, population) ==
    (IF u.use_genetic_algorithm THEN <<GeneticAlgorithm_new(population)>> ELSE <<>>)
    \o (IF u.use_simulated_annealing THEN <<SimulatedAnnealing_new(population)>> ELSE <<>>)
    \o (IF u.use_hill_climbing THEN <<HillClimbing_new(population)>> ELSE <<>>)

\* The strategies init_tests pushes, in its order, each over its own copy of
\* the population.
Pushed(u, population) ==
    (IF u.use_genetic_algorithm THEN <<GeneticAlgorithm_new(population)>> ELSE <<>>)
    \o (IF u.use_hill_climbing THEN <<HillClimbing_new(population)>> ELSE <<>>)
    \o (IF u.use_simulated_annealing THEN <<SimulatedAnnealing_new(population)>> ELSE <<>>)

\* A defect of init_tests: the population is built one creature too large.
init_tests_oversized(u) ==
    IF ~u.use_genetic_algorithm /\ ~u.use_hill_climbing /\ ~u.use_simulated_annealing
    THEN modal_new(u, "Error", "Please select at least one optimisation method",
                   None, None)
    ELSE LET made == Population_new(u.generation_size + 1, u.rng)
             r == set_creature_random(
                      [u EXCEPT !.rng = made.rng,
                                !.optmethods = @ \o Pushed(u, made.data),
                                !.gui_state = "Generations"])
         IN  IF r.panicked THEN r ELSE [r EXCEPT !.draw_simulation = FALSE]

\* A defect of init_tests: the population is built before the strategies are
\* looked at.
init_tests_checks_late(u) ==
    LET made == Population_new(u.generation_size, u.rng)
    IN  IF ~u.use_genetic_algorithm /\ ~u.use_hill_climbing /\ ~u.use_simulated_annealing
        THEN modal_new([u EXCEPT !.rng = made.rng], "Error",
                       "Please select at least one optimisation method", None, None)
        ELSE LET r == set_creature_random(
                          [u EXCEPT !.rng = made.rng,
                                    !.optmethods = @ \o Pushed(u, made.data),
                                    !.gui_state = "Generations"])
             IN  IF r.panicked THEN r ELSE [r EXCEPT !.draw_simulation = FALSE]

\* UIData::init_tests
init_tests(u) ==
    IF ~u.use_genetic_algorithm /\ ~u.use_hill_climbing /\ ~u.use_simulated_annealing
    THEN modal_new(u, "Error", "Please select at least one optimisation method",
                   None, None)
    ELSE LET made == Population_new(u.generation_size, u.rng)
             r == set_creature_random(
                      [u EXCEPT !.rng = made.rng,
                                !.optmethods = @ \o Pushed(u, made.data),
                                !.gui_state = "Generations"])
         IN  IF r.panicked THEN r ELSE [r EXCEPT !.draw_simulation = FALSE]

RECURSIVE AdvanceLoop(_, _, _)
\* The loop of generation_single from strategy k on: each strategy advanced
\* once with the shared random source; what each call returned is kept in
\* results and not looked at.
AdvanceLoop(u, k, evaluates) ==
    IF k > Len(u.optmethods) THEN u
    ELSE LET out == OptimisationMethod_generation_single(u.optmethods[k], u.rng,
                                                        evaluates[k])
         IN  AdvanceLoop([u EXCEPT !.optmethods[k] = out.method,
                                   !.rng = out.rng,
                                   !.results = Append(@, out.result)],
                         k + 1, evaluates)

\* A defect of generation_single: the loop leaves out the first strategy.
generation_single_skips_first(u, evaluates) ==
    LET r == AdvanceLoop([u EXCEPT !.results = <<>>], 2, evaluates)
    IN  [r EXCEPT !.spectate_generation = @ + 1,
                  !.total_generations = @ + 1,
                  !.simulation_frame = 0]

\* UIData::generation_single
generation_single(u, evaluates) ==
    LET r == AdvanceLoop([u EXCEPT !.results = <<>>], 1, evaluates)
    IN  [r EXCEPT !.spectate_generation = @ + 1,
                  !.total_generations = @ + 1,
                  !.simulation_frame = 0]

\* A defect of reset_optmethods: the selected creature is kept.
reset_optmethods_keeps_selection(u) ==
    [u EXCEPT !.optmethods = <<>>,
              !.total_generations = 0,
              !.spectate_generation = 0,
              !.draw_simulation = FALSE,
              !.simulation_frame = 0]

\* UIData::reset_optmethods
reset_optmethods(u) ==
    [u EXCEPT !.optmethods = <<>>,
              !.total_generations = 0,
              !.spectate_generation = 0,
              !.spectate_creature = 0,
              !.draw_simulation = FALSE,
              !.simulation_frame = 0]

-----------------------------------------------------------------------------
(* The state machine: one action per call of a UIData method.              *)

\* The state a call with arguments args leaves behind; no strategy call is
\* in flight after a method other than generation_single.
Called(u, op, args) ==
    /\ gui_state' = u.gui_state
    /\ rng' = u.rng
    /\ generation_size' = u.generation_size
    /\ use_genetic_algorithm' = u.use_genetic_algorithm
    /\ use_simulated_annealing' = u.use_simulated_annealing
    /\ use_hill_climbing' = u.use_hill_climbing
    /\ total_generations' = u.total_generations
    /\ spectate_method' = u.spectate_method
    /\ spectate_generation' = u.spectate_generation
    /\ spectate_creature' = u.spectate_creature
    /\ draw_simulation' = u.draw_simulation
    /\ simulation_frame' = u.simulation_frame
    /\ current_fitness' = u.current_fitness
    /\ optmethods' = u.optmethods
    /\ modal_visible' = u.modal_visible
    /\ modal_struct' = u.modal_struct
    /\ panicked' = u.panicked
    /\ results' = IF op = "generation_single" THEN u.results ELSE <<>>
    /\ last_op' = op
    /\ last_args' = args

\* The state a call without arguments leaves behind.
Becomes(u, op) == Called(u, op, <<>>)

Seeds == 1..MaxSeed

Init ==
    \E seed \in Seeds :
        LET u == UIData_new(seed)
        IN  /\ gui_state = u.gui_state
            /\ rng = u.rng
            /\ generation_size = u.generation_size
            /\ use_genetic_algorithm = u.use_genetic_algorithm
            /\ use_simulated_annealing = u.use_simulated_annealing
            /\ use_hill_climbing = u.use_hill_climbing
            /\ total_generations = u.total_generations
            /\ spectate_method = u.spectate_method
            /\ spectate_generation = u.spectate_generation
            /\ spectate_creature = u.spectate_creature
            /\ draw_simulation = u.draw_simulation
            /\ simulation_frame = u.simulation_frame
            /\ current_fitness = u.current_fitness
            /\ optmethods = u.optmethods
            /\ modal_visible = u.modal_visible
            /\ modal_struct = u.modal_struct
            /\ panicked = u.panicked
            /\ results = u.results
            /\ last_op = "new"
            /\ last_args = <<>>


\* The number of strategies init_tests would push.
Enabled(u) ==
    (IF u.use_genetic_algorithm THEN 1 ELSE 0)
    + (IF u.use_hill_climbing THEN 1 ELSE 0)
    + (IF u.use_simulated_annealing THEN 1 ELSE 0)

\* The menu writes the run's options (public fields of UIData); they are
\* fixed for a run, so only while no strategy exists.
SetOptions ==
    /\ ~panicked
    /\ optmethods = <<>>
    /\ \E size \in 0..MaxSize, ga \in BOOLEAN, hc \in BOOLEAN, sa \in BOOLEAN :
           Becomes([UI EXCEPT !.generation_size = size,
                              !.use_genetic_algorithm = ga,
                              !.use_hill_climbing = hc,
                              !.use_simulated_annealing = sa],
                   "options")

InitTests ==
    /\ ~panicked
    /\ generation_size <= MaxSize
    /\ Len(optmethods) + Enabled(UI) <= MaxMethods
    /\ Becomes(init_tests(UI), "init_tests")

\* A tick whose evaluations succeed or fail as one of `outcomes` says.
Tick(outcomes) ==
    /\ ~panicked
    /\ total_generations < MaxGen
    /\ \E evaluates \in outcomes :
           Becomes(generation_single(UI, evaluates), "generation_single")

\* A tick: any strategy's evaluation may fail.
GenerationSingle == Tick([1..Len(optmethods) -> BOOLEAN])

\* A tick in which every evaluation succeeds.
GenerationSingleOk == Tick({[i \in 1..Len(optmethods) |-> TRUE]})

SetCreature ==
    /\ ~panicked
    /\ \E method \in 0..(Len(optmethods) - 1) :
       \E generation \in 0..(Len(optmethods[method + 1].data.generations) - 1) :
       \E index \in 0..(Len(optmethods[method + 1].data
                              .generations[generation + 1].creatures) - 1) :
           Called(set_creature(UI, method, index, generation), "set_creature",
                  <<method, index, generation>>)

SetCreatureRandom ==
    /\ ~panicked
    /\ Becomes(set_creature_random(UI), "set_creature_random")

ResetSimulation ==
    /\ ~panicked
    /\ Becomes(reset_simulation(UI), "reset_simulation")

ResetOptmethods ==
    /\ ~panicked
    /\ Becomes(reset_optmethods(UI), "reset_optmethods")

Labels == {None, Some("Retry")}

ModalNew ==
    /\ ~panicked
    /\ \E btn_a_label \in Labels, btn_b_label \in Labels :
           Called(modal_new(UI, "Notice", "message", btn_a_label, btn_b_label),
                  "modal_new", <<btn_a_label, btn_b_label>>)

ModalClose ==
    /\ ~panicked
    /\ Becomes(modal_close(UI), "modal_close")

\* The generations page replays the watched creature: it writes the public
\* fields draw_simulation and simulation_frame, one frame per step.
Simulate ==
    /\ ~panicked
    /\ gui_state = "Generations"
    /\ simulation_frame < MaxFrame
    /\ Becomes([UI EXCEPT !.draw_simulation = TRUE,
                          !.simulation_frame = @ + 1],
               "simulate")

\* A run: the options, the start, the ticks, the resets.
Next ==
    \/ SetOptions
    \/ InitTests
    \/ GenerationSingle
    \/ ResetSimulation
    \/ ResetOptmethods
    \/ ModalClose

Spec == Init /\ [][Next]_vars

\* A run without evaluation failures, watched through randomly drawn
\* creatures.
NextSpectate ==
    \/ SetOptions
    \/ InitTests
    \/ GenerationSingleOk
    \/ SetCreatureRandom

SpecSpectate == Init /\ [][NextSpectate]_vars

\* The first ticks of a run.
GenerationSingleFirst ==
    /\ total_generations < MaxWatched
    /\ GenerationSingle

\* The first generations of a run, inspected creature by creature.
NextInspect ==
    \/ SetOptions
    \/ InitTests
    \/ GenerationSingleFirst
    \/ SetCreature
    \/ ResetSimulation

SpecInspect == Init /\ [][NextInspect]_vars

\* A run without evaluation failures, replayed on the generations page.
NextReplay ==
    \/ SetOptions
    \/ InitTests
    \/ GenerationSingleOk
    \/ Simulate
    \/ ResetSimulation
    \/ ResetOptmethods

SpecReplay == Init /\ [][NextReplay]_vars

\* The modal dialog raised and closed around the start of runs.
NextModal ==
    \/ SetOptions
    \/ InitTests
    \/ ModalNew
    \/ ModalClose

SpecModal == Init /\ [][NextModal]_vars

-----------------------------------------------------------------------------
(* The properties.                                                         *)

\* The genomes of a generation, in order.
Genomes(generation) ==
    [j \in DOMAIN generation.creatures |-> generation.creatures[j].genome]

NoStrategySelected ==
    ~use_genetic_algorithm /\ ~use_hill_climbing /\ ~use_simulated_annealing

\* The step is a tick.
Ticked == last_op' = "generation_single"

(* C1: a strategy is constructed with gen = 0; a successful                *)
(* generation_single increases its gen by exactly 1 and appends exactly    *)
(* one generation; no other call changes either, so gen never decreases    *)
(* and equals the number of successful calls; generations.len() = gen + 1  *)
(* in every state.                                                         *)
C1_GenStep ==
    /\ \A i \in DOMAIN optmethods' \ DOMAIN optmethods :
           optmethods'[i].data.gen = 0
    /\ \A i \in DOMAIN optmethods \cap DOMAIN optmethods' :
           LET before == optmethods[i].data
               after == optmethods'[i].data
           IN  IF Ticked /\ results'[i] = "Ok"
               THEN /\ after.gen = before.gen + 1
                    /\ Len(after.generations) = Len(before.generations) + 1
               ELSE /\ after.gen = before.gen
                    /\ Len(after.generations) = Len(before.generations)

C1_LenIsGenPlusOne ==
    \A i \in DOMAIN optmethods :
        /\ Len(optmethods[i].data.generations) = optmethods[i].data.gen + 1
        /\ optmethods[i].data.gen <= total_generations

C1_HistoryGrowth == []C1_LenIsGenPlusOne /\ [][C1_GenStep]_vars

\* All three strategies have advanced twice.
C1_Witness ==
    /\ ~panicked
    /\ Len(optmethods) = 3
    /\ \A i \in DOMAIN optmethods :
           /\ optmethods[i].data.gen = 2
           /\ Len(optmethods[i].data.generations) = 3

(* C2: every generation of every strategy's history holds exactly          *)
(* generation_size creatures, the size the population was built with.      *)
C2_SizeConservation ==
    \A i \in DOMAIN optmethods :
        \A k \in DOMAIN optmethods[i].data.generations :
            Len(optmethods[i].data.generations[k].creatures) = generation_size

\* Two strategies of two creatures each, one of them two generations on.
C2_Witness ==
    /\ generation_size = 2
    /\ \E i, j \in DOMAIN optmethods :
           /\ optmethods[i].kind = "GeneticAlgorithm"
           /\ optmethods[i].data.gen = 2
           /\ optmethods[j].kind = "SimulatedAnnealing"
           /\ optmethods[j].data.gen >= 1

(* C3: a generation_single call that returns an error leaves the strategy  *)
(* exactly as it was; and the strategy a failed call leaves behind         *)
(* advances gen by 1 when it is called again and the evaluation succeeds.  *)
C3_FailureStep ==
    Ticked =>
        \A i \in DOMAIN optmethods :
            results'[i] = "Err" => optmethods'[i] = optmethods[i]

C3_Retry ==
    (~panicked /\ last_op = "generation_single") =>
        \A i \in DOMAIN optmethods :
            results[i] = "Err" =>
                LET again == OptimisationMethod_generation_single(optmethods[i], rng, TRUE)
                IN  /\ again.result = "Ok"
                    /\ again.method.data.gen = optmethods[i].data.gen + 1

C3_FailureAtomicity == []C3_Retry /\ [][C3_FailureStep]_vars

\* The second tick: one strategy fails after a success, another succeeds
\* after a failure.
C3_Witness ==
    /\ last_op = "generation_single"
    /\ total_generations = 2
    /\ \E i, j \in DOMAIN optmethods :
           /\ results[i] = "Err" /\ optmethods[i].data.gen = 1
           /\ results[j] = "Ok" /\ optmethods[j].data.gen = 1

(* C4: after a tick in which a strategy's generation_single returned an    *)
(* error, the error is shown to the caller (an error modal is visible).    *)
C4_FailureSurfaced ==
    (last_op = "generation_single" /\ \E i \in DOMAIN results : results[i] = "Err") =>
        /\ modal_visible
        /\ modal_struct.some
        /\ modal_struct.val.title = "Error"

(* C5: init_tests with no strategy selected shows the error modal and      *)
(* does nothing else: the random source, optmethods and gui_state are      *)
(* unchanged.                                                              *)
C5_Step ==
    (last_op' = "init_tests" /\ NoStrategySelected) =>
        /\ modal_visible'
        /\ modal_struct' = Some([title |-> "Error",
                                 message |-> "Please select at least one optimisation method",
                                 button_a_label |-> "Okay",
                                 button_b_label |-> "Close"])
        /\ rng' = rng
        /\ optmethods' = optmethods
        /\ gui_state' = gui_state
        /\ ~panicked'

C5_NoStrategyRejected == [][C5_Step]_vars

\* init_tests has been called with no strategy selected.
C5_Witness ==
    /\ last_op = "init_tests"
    /\ NoStrategySelected
    /\ modal_visible
    /\ optmethods = <<>>
    /\ gui_state = "Menu"

(* C6: a start with generation_size = 0 is rejected with an error: the     *)
(* error is shown, no strategy holds an empty generation, the run does     *)
(* not enter the Generations state, the program goes on.                   *)
C6_ZeroSizeRejected ==
    (last_op = "init_tests" /\ generation_size = 0 /\ ~NoStrategySelected) =>
        /\ modal_visible
        /\ \A i \in DOMAIN optmethods :
               \A k \in DOMAIN optmethods[i].data.generations :
                   optmethods[i].data.generations[k].creatures # <<>>
        /\ gui_state # "Generations"
        /\ ~panicked

(* C7: the strategies one init_tests constructs start from the same        *)
(* population at gen = 0; no step changes the genomes of a generation      *)
(* already in a strategy's history; and in a tick a strategy whose call    *)
(* failed is unchanged while another advanced.                             *)
C7_Step ==
    /\ \A i, j \in DOMAIN optmethods' \ DOMAIN optmethods :
           /\ optmethods'[i].data = optmethods'[j].data
           /\ optmethods'[i].data.gen = 0
    /\ \A i \in DOMAIN optmethods \cap DOMAIN optmethods' :
           \A k \in DOMAIN optmethods[i].data.generations :
               /\ k \in DOMAIN optmethods'[i].data.generations
               /\ Genomes(optmethods'[i].data.generations[k])
                      = Genomes(optmethods[i].data.generations[k])
    /\ Ticked =>
           \A i, j \in DOMAIN optmethods :
               (results'[i] = "Ok" /\ results'[j] = "Err") =>
                   /\ optmethods'[j] = optmethods[j]
                   /\ optmethods'[i].data.gen = optmethods[i].data.gen + 1

C7_OwnPopulation == [][C7_Step]_vars

\* Three strategies from one population, the second left behind by a failed
\* call, the histories of the first and the third apart.
C7_Witness ==
    /\ last_op = "generation_single"
    /\ Len(optmethods) = 3
    /\ results = <<"Ok", "Err", "Ok">>
    /\ optmethods[1].data.generations[1] = optmethods[3].data.generations[1]
    /\ optmethods[1].data # optmethods[3].data

(* C8: the creature index set_creature_random draws (alone or within       *)
(* init_tests) is below generation_size and indexes a creature of every    *)
(* generation of every strategy's history.                                 *)
C8_SpectateIndexBound ==
    ( /\ \/ last_op = "set_creature_random"
         \/ last_op = "init_tests" /\ ~NoStrategySelected
      /\ generation_size > 0 ) =>
        /\ spectate_creature < generation_size
        /\ \A i \in DOMAIN optmethods :
               \A k \in DOMAIN optmethods[i].data.generations :
                   spectate_creature < Len(optmethods[i].data.generations[k].creatures)

\* The last creature of the third generation has been drawn.
C8_Witness ==
    /\ last_op = "set_creature_random"
    /\ ~panicked
    /\ generation_size = 2
    /\ spectate_generation = 2
    /\ spectate_creature = 1

(* C10: under hill climbing the fitness of creature j never decreases from *)
(* one generation to the next; where the genome changed the fitness is     *)
(* strictly greater, otherwise the parent was carried forward.             *)
C10_HillClimbingMonotone ==
    \A i \in DOMAIN optmethods :
        optmethods[i].kind = "HillClimbing" =>
            \A k \in 1..(Len(optmethods[i].data.generations) - 1) :
                \A j \in DOMAIN optmethods[i].data.generations[k].creatures :
                    LET parent == optmethods[i].data.generations[k].creatures[j]
                        child == optmethods[i].data.generations[k + 1].creatures[j]
                    IN  /\ child.fitness >= parent.fitness
                        /\ child.genome # parent.genome => child.fitness > parent.fitness
                        /\ child.genome = parent.genome => child.fitness = parent.fitness

\* A hill climber two generations on: one lineage improved, one carried its
\* parent forward.
C10_Witness ==
    \E i \in DOMAIN optmethods :
        /\ optmethods[i].kind = "HillClimbing"
        /\ optmethods[i].data.gen = 2
        /\ \E k \in 1..2 :
           \E j \in DOMAIN optmethods[i].data.generations[k].creatures :
               optmethods[i].data.generations[k + 1].creatures[j].fitness
                   > optmethods[i].data.generations[k].creatures[j].fitness
        /\ \E k \in 1..2 :
           \E j \in DOMAIN optmethods[i].data.generations[k].creatures :
               optmethods[i].data.generations[k + 1].creatures[j].genome
                   = optmethods[i].data.generations[k].creatures[j].genome

\* C11: under SimulatedAnnealing the temperature never rises across a step,
\* is a non-increasing function of gen (of two annealers the one with the
\* greater gen is no hotter, equal gens have equal temperatures), and in every
\* reachable state it is at least the floor 1, so it never reaches zero.
C11_Floor ==
    \A i \in 1..Len(optmethods) :
        optmethods[i].kind = "SimulatedAnnealing" =>
            optmethods[i].temperature >= 1

C11_FunctionOfGen ==
    \A i, j \in 1..Len(optmethods) :
        /\ optmethods[i].kind = "SimulatedAnnealing"
        /\ optmethods[j].kind = "SimulatedAnnealing"
        /\ optmethods[i].data.gen <= optmethods[j].data.gen
        => optmethods[i].temperature >= optmethods[j].temperature

C11_Step ==
    \A i \in 1..Len(optmethods) :
        /\ i <= Len(optmethods')
        /\ optmethods[i].kind = "SimulatedAnnealing"
        => /\ optmethods'[i].temperature <= optmethods[i].temperature
           /\ optmethods'[i].data.gen = optmethods[i].data.gen
              => optmethods'[i].temperature = optmethods[i].temperature

C11_TemperatureDecay ==
    /\ []C11_Floor
    /\ []C11_FunctionOfGen
    /\ [][C11_Step]_vars

\* An annealer advanced twice: cooled from 2 to the floor and clamped there.
C11_Witness ==
    \E i \in 1..Len(optmethods) :
        /\ optmethods[i].kind = "SimulatedAnnealing"
        /\ optmethods[i].data.gen = 2
        /\ optmethods[i].temperature = 1

\* What of a creature outlasts a simulation: everything but its position.
Lasting(c) == [genome |-> c.genome, fitness |-> c.fitness, scored |-> c.scored]

\* What of a strategy outlasts a simulation: its kind, gen, temperature and
\* its history without the creatures' positions.
LastingMethod(method) ==
    [kind |-> method.kind,
     gen |-> method.data.gen,
     temperature |-> method.temperature,
     generations |->
         [g \in 1..Len(method.data.generations) |->
             [k \in 1..Len(method.data.generations[g].creatures) |->
                 Lasting(method.data.generations[g].creatures[k])]]]

LastingMethods(methods) == [i \in 1..Len(methods) |-> LastingMethod(methods[i])]

\* C12: reset_simulation changes only creatures' positions and
\* simulation_frame: every strategy keeps its gen, its number of generations,
\* the creatures per generation and every creature's fitness, and
\* spectate_method, spectate_generation, spectate_creature and
\* total_generations are unchanged; when it returns, simulation_frame is 0 and
\* the watched creature of every strategy is back at the start.
C12_ResetSimulationFrame ==
    [][last_op' = "reset_simulation" =>
          /\ LastingMethods(optmethods') = LastingMethods(optmethods)
          /\ spectate_method' = spectate_method
          /\ spectate_generation' = spectate_generation
          /\ spectate_creature' = spectate_creature
          /\ total_generations' = total_generations
          /\ UNCHANGED <<gui_state, rng, generation_size, use_genetic_algorithm,
                         use_simulated_annealing, use_hill_climbing,
                         draw_simulation, current_fitness, modal_visible,
                         modal_struct>>
          /\ ~panicked' =>
                /\ simulation_frame' = 0
                /\ \A i \in 1..Len(optmethods') :
                       optmethods'[i].data.generations[spectate_generation + 1]
                           .creatures[spectate_creature + 1].pos = 0]_vars

\* reset_simulation returned during a replay (a frame had been drawn): the
\* watched creature, not the first one, had walked in its trial and is back
\* at the start, another creature of its generation is still where it walked to.
C12_Witness ==
    /\ last_op = "reset_simulation"
    /\ ~panicked
    /\ draw_simulation
    /\ simulation_frame = 0
    /\ spectate_creature = 1
    /\ \E i \in 1..Len(optmethods) :
           LET cs == optmethods[i].data.generations[spectate_generation + 1].creatures
           IN  /\ cs[2].scored /\ cs[2].fitness > 0 /\ cs[2].pos = 0
               /\ cs[1].pos > 0

\* Every strategy's gen equals total_generations.
InStep(methods, total) ==
    \A i \in 1..Len(methods) : methods[i].data.gen = total

\* C13: one tick calls generation_single exactly once on every strategy (one
\* result per strategy, no strategy advanced by more than 1, none added or
\* removed) and adds exactly 1 to total_generations; hence, as long as every
\* advance succeeds and no call panics, total_generations equals the gen of
\* every strategy, and all strategies have the same gen.
C13_Step ==
    /\ Ticked =>
          /\ total_generations' = total_generations + 1
          /\ Len(optmethods') = Len(optmethods)
          /\ Len(results') = Len(optmethods)
          /\ \A i \in 1..Len(optmethods) :
                 optmethods'[i].data.gen =
                     optmethods[i].data.gen + (IF results'[i] = "Ok" THEN 1 ELSE 0)
    /\ ( /\ InStep(optmethods, total_generations)
         /\ ~panicked'
         /\ Ticked => \A i \in 1..Len(results') : results'[i] = "Ok" )
       => InStep(optmethods', total_generations')

C13_TickCountsGenerations == [][C13_Step]_vars

\* Two ticks in which every advance succeeded, on two strategies or more.
C13_Witness ==
    /\ last_op = "generation_single"
    /\ total_generations = 2
    /\ Len(optmethods) >= 2
    /\ \A i \in 1..Len(optmethods) :
           results[i] = "Ok" /\ optmethods[i].data.gen = 2

\* The kinds of the strategies, in their order in optmethods.
KindsOf(methods) == [i \in 1..Len(methods) |-> methods[i].kind]

\* The kinds of the enabled strategies, in the order GA, HC, SA.
EnabledKinds ==
    (IF use_genetic_algorithm THEN <<"GeneticAlgorithm">> ELSE <<>>)
    \o (IF use_hill_climbing THEN <<"HillClimbing">> ELSE <<>>)
    \o (IF use_simulated_annealing THEN <<"SimulatedAnnealing">> ELSE <<>>)

\* C14: an init_tests that returns, called with at least one flag set and
\* optmethods empty, leaves exactly one strategy per enabled flag and none for
\* a disabled one, in the order GA, HC, SA, each at gen 0 over its own copy of
\* the one population built from the random source with generation_size
\* creatures, and leaves gui_state = Generations and draw_simulation = false.
C14_Step ==
    ( /\ last_op' = "init_tests"
      /\ ~panicked'
      /\ optmethods = <<>>
      /\ ~NoStrategySelected )
    => /\ KindsOf(optmethods') = EnabledKinds
       /\ \A i \in 1..Len(optmethods') :
              /\ optmethods'[i].data = Population_new(generation_size, rng).data
              /\ optmethods'[i].data.gen = 0
              /\ Len(optmethods'[i].data.generations) = 1
              /\ Len(optmethods'[i].data.generations[1].creatures) = generation_size
       /\ gui_state' = "Generations"
       /\ draw_simulation' = FALSE

C14_InitTestsConstructs == [][C14_Step]_vars

\* A start with all three strategies over two creatures.
C14_Witness ==
    /\ last_op = "init_tests"
    /\ ~panicked
    /\ KindsOf(optmethods) = <<"GeneticAlgorithm", "HillClimbing", "SimulatedAnnealing">>
    /\ generation_size = 2
    /\ gui_state = "Generations"
    /\ ~draw_simulation

\* C15: when set_creature(method, index, generation), called with arguments
\* in range, returns, spectate_creature = index and current_fitness is the
\* fitness of creature index of generation generation of strategy method;
\* spectate_method, spectate_generation, total_generations and every
\* strategy's gen and number of generations are unchanged.
C15_Step ==
    (last_op' = "set_creature" /\ ~panicked') =>
        LET method == last_args'[1]
            index == last_args'[2]
            generation == last_args'[3]
        IN  /\ spectate_creature' = index
            /\ current_fitness' =
                   optmethods[method + 1].data.generations[generation + 1]
                       .creatures[index + 1].fitness
            /\ current_fitness' =
                   optmethods'[method + 1].data.generations[generation + 1]
                       .creatures[index + 1].fitness
            /\ spectate_method' = spectate_method
            /\ spectate_generation' = spectate_generation
            /\ total_generations' = total_generations
            /\ Len(optmethods') = Len(optmethods)
            /\ \A i \in 1..Len(optmethods) :
                   /\ optmethods'[i].data.gen = optmethods[i].data.gen
                   /\ Len(optmethods'[i].data.generations) =
                          Len(optmethods[i].data.generations)

C15_SetCreatureSelects == [][C15_Step]_vars

\* The second creature of generation 0 of the second strategy is selected
\* while generation 1 is watched; it has a fitness, which the watched
\* generation's second creature of the watched strategy has not.
C15_Witness ==
    /\ last_op = "set_creature"
    /\ ~panicked
    /\ last_args = <<1, 1, 0>>
    /\ spectate_generation = 1
    /\ spectate_creature = 1
    /\ current_fitness > 0
    /\ optmethods[1].data.generations[2].creatures[2].fitness # current_fitness

\* C16: in every state the calls reach (short of a panic),
\* spectate_generation <= total_generations and, for every strategy,
\* spectate_generation < generations.len() and spectate_creature <
\* generation_size, so that the indexing of reset_simulation is in bounds,
\* also after a tick in which a strategy's advance appended no generation.
C16_SpectateInBounds ==
    ~panicked =>
        /\ spectate_generation <= total_generations
        /\ \A i \in 1..Len(optmethods) :
               /\ spectate_generation < Len(optmethods[i].data.generations)
               /\ spectate_creature < generation_size
               /\ InBounds(optmethods[i].data, spectate_generation, spectate_creature)

\* The number of strategies of a kind.
Instances(methods, kind) ==
    Cardinality({i \in 1..Len(methods) : methods[i].kind = kind})

\* C17: after the calls of init_tests and reset_optmethods (short of a panic),
\* optmethods holds at most one instance of each strategy, hence at most 3
\* entries, and exactly the enabled strategies while gui_state is Generations.
C17_OneInstanceEach ==
    ~panicked =>
        /\ \A kind \in {"GeneticAlgorithm", "HillClimbing", "SimulatedAnnealing"} :
               Instances(optmethods, kind) <= 1
        /\ Len(optmethods) <= 3
        /\ gui_state = "Generations" => KindsOf(optmethods) = EnabledKinds

\* C18: when set_creature(method, index, generation) has returned, the
\* creature it selected (creature spectate_creature = index of the watched
\* generation, in every strategy) is back at the start, and simulation_frame
\* is 0.
C18_SelectedCreatureReset ==
    (last_op = "set_creature" /\ ~panicked) =>
        /\ simulation_frame = 0
        /\ \A i \in 1..Len(optmethods) :
               optmethods[i].data.generations[spectate_generation + 1]
                   .creatures[spectate_creature + 1].pos = 0

\* C19: reset_optmethods empties optmethods, sets total_generations,
\* spectate_generation, spectate_creature and simulation_frame to 0 and
\* draw_simulation to false, and leaves generation_size, the three flags,
\* gui_state, spectate_method, current_fitness and the modal as they were; an
\* init_tests that follows it starts again from gen = 0 with
\* total_generations = 0.
C19_ResetStep ==
    last_op' = "reset_optmethods" =>
        /\ optmethods' = <<>>
        /\ total_generations' = 0
        /\ spectate_generation' = 0
        /\ spectate_creature' = 0
        /\ simulation_frame' = 0
        /\ draw_simulation' = FALSE
        /\ UNCHANGED <<generation_size, use_genetic_algorithm, use_hill_climbing,
                       use_simulated_annealing, gui_state, spectate_method,
                       current_fitness, modal_visible, modal_struct, rng>>

C19_RestartStep ==
    (last_op = "reset_optmethods" /\ last_op' = "init_tests" /\ ~NoStrategySelected) =>
        /\ total_generations' = 0
        /\ KindsOf(optmethods') = EnabledKinds
        /\ \A i \in 1..Len(optmethods') :
               /\ optmethods'[i].data.gen = 0
               /\ Len(optmethods'[i].data.generations) = 1

C19_ResetOptmethodsFrame == [][C19_ResetStep /\ C19_RestartStep]_vars

\* reset_optmethods after a run was started, with the modal of an earlier
\* refused start still up.
C19_Witness ==
    /\ last_op = "reset_optmethods"
    /\ gui_state = "Generations"
    /\ modal_visible
    /\ optmethods = <<>>
    /\ generation_size = 2

\* C20: in every state the calls of modal_new, modal_close and init_tests
\* reach, modal_visible holds exactly when modal_struct is Some; modal_close
\* leaves modal_visible false and modal_struct None; modal_new shows the modal
\* with the labels given, "Okay" and "Close" where none is given.
C20_VisibleIffSome == modal_visible <=> modal_struct.some

C20_Step ==
    /\ last_op' = "modal_close" =>
          /\ ~modal_visible'
          /\ modal_struct' = None
    /\ last_op' = "modal_new" =>
          /\ modal_visible'
          /\ modal_struct'.some
          /\ modal_struct'.val.button_a_label =
                 (IF last_args'[1] = None THEN "Okay" ELSE last_args'[1].val)
          /\ modal_struct'.val.button_b_label =
                 (IF last_args'[2] = None THEN "Close" ELSE last_args'[2].val)

C20_ModalConsistent == []C20_VisibleIffSome /\ [][C20_Step]_vars

\* modal_new was called with a label for the second button only.
C20_Witness ==
    /\ last_op = "modal_new"
    /\ last_args = <<None, Some("Retry")>>
    /\ modal_visible
    /\ modal_struct.val.button_a_label = "Okay"
    /\ modal_struct.val.button_b_label = "Retry"

=============================================================================
